---- MODULE Spec2Model ----
(***************************************************************************)
(* Transporter assignment in the shipment tracker: the Mirage mock server  *)
(* (the Assignment Authority), the Pinia shipment store (the client) with  *)
(* its real-time status simulator, and the requests and responses in       *)
(* flight between the two.                                                  *)
(***************************************************************************)
EXTENDS Integers, Sequences, FiniteSets, TLC

\* ------------------------------------------------------------------------
\* Bounds
\* ------------------------------------------------------------------------

\* How many of the seed shipments (a prefix of the seed list) are loaded.
SeedSize == 3

\* Views mounted by the router, one after the other.
MaxNavigations == 3

\* Requests plus responses that may be in flight at the same time.
MaxInFlight == 2

\* Timers the browser is asked to keep active at the same time.
MaxTimers == 2

\* GET /shipments requests the store sends in one run.
MaxFetches == 1

\* Assign requests and ticks the store issues in one run.
MaxRequests == 5

\* The assign calls of a run whose simulator then goes on for ever.
MaxLiveAssigns == 1

\* ------------------------------------------------------------------------
\* Values
\* ------------------------------------------------------------------------

\* A shipment without transporterId (the attribute is optional).
NoTransporter == "undefined"

\* "No shipment" where an id is expected (find() returned undefined).
NoId == "none"

\* updateInterval = null
null == 0

\* currentShipment = null, error = null
NoShipment == << >>
NoError == << >>

\* Ids that no seed record carries, and the empty transporterId.
UnknownShipmentId == "SHP-999"
UnknownTransporterId == "TRN-999"
EmptyTransporterId == ""

Status == {"not-assigned", "assigned", "in-transit", "delivered", "cancelled"}

\* ------------------------------------------------------------------------
\* Seed data
\* ------------------------------------------------------------------------

seedShipments ==
  << [id |-> "SHP-001", status |-> "not-assigned", vehicleType |-> "Truck",
      transporterId |-> NoTransporter],
     [id |-> "SHP-002", status |-> "assigned", vehicleType |-> "Van",
      transporterId |-> "TRN-002"],
     [id |-> "SHP-003", status |-> "not-assigned", vehicleType |-> "Truck",
      transporterId |-> NoTransporter],
     [id |-> "SHP-004", status |-> "assigned", vehicleType |-> "Container Truck",
      transporterId |-> "TRN-003"],
     [id |-> "SHP-005", status |-> "not-assigned", vehicleType |-> "Truck",
      transporterId |-> NoTransporter] >>

seedTransporters ==
  << [id |-> "TRN-001", name |-> "Budi Santoso", vehicleType |-> "Truck"],
     [id |-> "TRN-002", name |-> "Siti Rahayu", vehicleType |-> "Van"],
     [id |-> "TRN-003", name |-> "Ahmad Wijaya", vehicleType |-> "Container Truck"],
     [id |-> "TRN-004", name |-> "Dewi Lestari", vehicleType |-> "Truck"] >>

\* The shipment ids in the order the server created them.
ShipmentOrder == [i \in 1..SeedSize |-> seedShipments[i].id]

ShipmentIds == {ShipmentOrder[i] : i \in 1..SeedSize}

SeedOf(id) == seedShipments[CHOOSE i \in 1..Len(seedShipments) : seedShipments[i].id = id]

TransporterIds == {seedTransporters[i].id : i \in 1..Len(seedTransporters)}

Transporter(id) == seedTransporters[CHOOSE i \in 1..Len(seedTransporters) : seedTransporters[i].id = id]

VARIABLES
  schemaShipments,   \* server: shipment id -> shipment record
  shipments,         \* store: shipment id -> shipment record (empty before the first fetch)
  updateInterval,    \* store: id of the simulator's timer, or null
  activeTimers,      \* browser: ids of the timers that are set
  assignReqs,        \* PATCH /shipments/:id/assign requests on their way to the server
  statusReqs,        \* PATCH /shipments/:id/status requests on their way to the server
  fetchReqs,         \* GET /shipments requests on their way to the server
  assignResps,       \* responses to assign requests on their way to the store
  statusResps,       \* responses to status requests on their way to the store
  fetchResps,        \* responses to GET /shipments on their way to the store
  fetchCount,        \* GET /shipments requests sent so far
  requestCount,      \* assign requests and ticks issued so far
  currentShipment,   \* store: << >> (null) or << the shipment being viewed >>
  transporters,      \* store: the transporter list (empty before fetchTransporters)
  loading,           \* store: loading flag
  error,             \* store: << >> (null) or the error message
  query,             \* the last getter call and what it returned
  view,              \* the view the router shows: the page, the route id of the
                     \* detail view, how far its onMounted got, the transporter
                     \* selected in its form, and the views mounted so far
  realTimeUpdateErrors  \* console: the number of "[Real-time Update] Failed to
                        \* update shipment status" lines

vars == << schemaShipments, shipments, updateInterval, activeTimers,
           assignReqs, statusReqs, fetchReqs, assignResps, statusResps, fetchResps,
           fetchCount, requestCount,
           currentShipment, transporters, loading, error, query, view, realTimeUpdateErrors >>

InFlight == Cardinality(assignReqs) + Cardinality(statusReqs) + Cardinality(fetchReqs)
            + Cardinality(assignResps) + Cardinality(statusResps) + Cardinality(fetchResps)

\* ------------------------------------------------------------------------
\* The server (Assignment Authority)
\* ------------------------------------------------------------------------

Busy == {"assigned", "in-transit"}

\* The message of Business Rule 1, as the pieces the template joins.
VehicleTypeMismatchMessage(required, actual) ==
  << "Vehicle type mismatch: Shipment requires ", required,
     ", but transporter has ", actual >>

\* The message of Business Rule 2 with the wording fixed to "assigned to".
TransporterBusyMessageAssignedTo(name, existing) ==
  << "Transporter ", name, " is already ", "assigned to", " shipment ", existing.id >>

\* The message of Business Rule 2, as the pieces the template joins.
TransporterBusyMessage(name, existing) ==
  << "Transporter ", name, " is already ",
     IF existing.status = "in-transit" THEN "actively transporting" ELSE "assigned to",
     " shipment ", existing.id >>

ErrorResponse(code, message) == [code |-> code, body |-> [errors |-> << message >>]]

ShipmentResponse(shipment) == [code |-> 200, body |-> [shipment |-> shipment]]

\* The double-booking scan that forgets status assigned: only a shipment
\* in transit blocks the transporter.
existingAssignmentInTransitOnly(db, id, transporterId) ==
  LET hits == {i \in 1..Len(ShipmentOrder) :
                 LET s == db[ShipmentOrder[i]]
                 IN  /\ s.transporterId = transporterId
                     /\ s.status = "in-transit"
                     /\ s.id # id}
  IN  IF hits = {} THEN NoId
      ELSE ShipmentOrder[CHOOSE i \in hits : \A j \in hits : i <= j]

\* The double-booking scan that forgets the status: any other shipment
\* that carries the transporterId blocks the transporter.
existingAssignmentAnyStatus(db, id, transporterId) ==
  LET hits == {i \in 1..Len(ShipmentOrder) :
                 LET s == db[ShipmentOrder[i]]
                 IN  /\ s.transporterId = transporterId
                     /\ s.id # id}
  IN  IF hits = {} THEN NoId
      ELSE ShipmentOrder[CHOOSE i \in hits : \A j \in hits : i <= j]

\* The first shipment, in creation order, other than id that holds the
\* transporter in status assigned or in-transit; NoId when there is none.
existingAssignment(db, id, transporterId) ==
  LET hits == {i \in 1..Len(ShipmentOrder) :
                 LET s == db[ShipmentOrder[i]]
                 IN  /\ s.transporterId = transporterId
                     /\ (s.status = "assigned" \/ s.status = "in-transit")
                     /\ s.id # id}
  IN  IF hits = {} THEN NoId
      ELSE ShipmentOrder[CHOOSE i \in hits : \A j \in hits : i <= j]

\* Business Rule 1 left out: every transporter passes for every shipment.
VehicleTypeMatchesAny(shipmentData, transporterData) == TRUE

\* Business Rule 1 read loosely: a Container Truck passes for a Truck and a
\* Truck for a Container Truck.
VehicleTypeMatchesTrucks(shipmentData, transporterData) ==
  \/ shipmentData.vehicleType = transporterData.vehicleType
  \/ {shipmentData.vehicleType, transporterData.vehicleType}
        = {"Truck", "Container Truck"}

\* Business Rule 1 of the assign handler: TRUE when the request passes.
VehicleTypeMatches(shipmentData, transporterData) ==
  shipmentData.vehicleType = transporterData.vehicleType

\* The update that forgets the status: only the transporterId is written.
UpdateAssignmentKeepStatus(shipmentData, transporterId) ==
  [shipmentData EXCEPT !.transporterId = transporterId]

\* shipment.update({ transporterId, status: 'assigned' })
UpdateAssignment(shipmentData, transporterId) ==
  [shipmentData EXCEPT !.transporterId = transporterId, !.status = "assigned"]

\* The transporterId check left out: an empty id goes on to the lookup.
MissingTransporterIdNever(transporterId) == FALSE

\* !attrs.transporterId: the request names no transporter.
MissingTransporterId(transporterId) == transporterId = EmptyTransporterId

\* The assign route that writes the assignment before Business Rule 2 and
\* does not take it back when the transporter turns out to be busy.
AssignHandlerUpdatesFirst(db, id, transporterId) ==
  IF id \notin DOMAIN db
  THEN [db |-> db, response |-> ErrorResponse(404, << "Shipment not found" >>)]
  ELSE IF MissingTransporterId(transporterId)
  THEN [db |-> db, response |-> ErrorResponse(400, << "transporterId is required" >>)]
  ELSE IF transporterId \notin TransporterIds
  THEN [db |-> db, response |-> ErrorResponse(404, << "Transporter not found" >>)]
  ELSE LET shipmentData == db[id]
           transporterData == Transporter(transporterId)
           existing == existingAssignment(db, id, transporterId)
           updated == UpdateAssignment(shipmentData, transporterId)
       IN  IF ~VehicleTypeMatches(shipmentData, transporterData)
           THEN [db |-> db,
                 response |-> ErrorResponse(400,
                    VehicleTypeMismatchMessage(shipmentData.vehicleType,
                                               transporterData.vehicleType))]
           ELSE IF existing # NoId
           THEN [db |-> [db EXCEPT ![id] = updated],
                 response |-> ErrorResponse(400,
                    TransporterBusyMessage(transporterData.name, db[existing]))]
           ELSE [db |-> [db EXCEPT ![id] = updated],
                 response |-> ShipmentResponse(updated)]

\* PATCH /shipments/:id/assign: the database after the request and the response.
AssignHandler(db, id, transporterId) ==
  IF id \notin DOMAIN db
  THEN [db |-> db, response |-> ErrorResponse(404, << "Shipment not found" >>)]
  ELSE IF MissingTransporterId(transporterId)
  THEN [db |-> db, response |-> ErrorResponse(400, << "transporterId is required" >>)]
  ELSE IF transporterId \notin TransporterIds
  THEN [db |-> db, response |-> ErrorResponse(404, << "Transporter not found" >>)]
  ELSE LET shipmentData == db[id]
           transporterData == Transporter(transporterId)
           existing == existingAssignment(db, id, transporterId)
       IN  IF ~VehicleTypeMatches(shipmentData, transporterData)
           THEN [db |-> db,
                 response |-> ErrorResponse(400,
                    VehicleTypeMismatchMessage(shipmentData.vehicleType,
                                               transporterData.vehicleType))]
           ELSE IF existing # NoId
           THEN [db |-> db,
                 response |-> ErrorResponse(400,
                    TransporterBusyMessage(transporterData.name, db[existing]))]
           ELSE LET updated == UpdateAssignment(shipmentData, transporterId)
                IN  [db |-> [db EXCEPT ![id] = updated],
                     response |-> ShipmentResponse(updated)]

\* The status route with a transition check: a delivered or cancelled
\* shipment keeps its status.
StatusHandlerTerminalKept(db, id, status) ==
  IF id \notin DOMAIN db
  THEN [db |-> db, response |-> ErrorResponse(404, << "Shipment not found" >>)]
  ELSE IF status = "" \/ db[id].status \in {"delivered", "cancelled"}
  THEN [db |-> db, response |-> ErrorResponse(400, << "Status is required" >>)]
  ELSE LET updated == [db[id] EXCEPT !.status = status]
       IN  [db |-> [db EXCEPT ![id] = updated],
            response |-> ShipmentResponse(updated)]

\* The status route that also releases the transporter of a shipment it
\* marks delivered.
StatusHandlerReleasesTransporter(db, id, status) ==
  IF id \notin DOMAIN db
  THEN [db |-> db, response |-> ErrorResponse(404, << "Shipment not found" >>)]
  ELSE IF status = ""
  THEN [db |-> db, response |-> ErrorResponse(400, << "Status is required" >>)]
  ELSE LET updated == [db[id] EXCEPT !.status = status,
                                     !.transporterId =
                                        IF status = "delivered" THEN NoTransporter ELSE @]
       IN  [db |-> [db EXCEPT ![id] = updated],
            response |-> ShipmentResponse(updated)]

\* PATCH /shipments/:id/status: the database after the request and the response.
StatusHandler(db, id, status) ==
  IF id \notin DOMAIN db
  THEN [db |-> db, response |-> ErrorResponse(404, << "Shipment not found" >>)]
  ELSE IF status = ""
  THEN [db |-> db, response |-> ErrorResponse(400, << "Status is required" >>)]
  ELSE LET updated == [db[id] EXCEPT !.status = status]
       IN  [db |-> [db EXCEPT ![id] = updated],
            response |-> ShipmentResponse(updated)]

\* ------------------------------------------------------------------------
\* The store (client)
\* ------------------------------------------------------------------------

\* assignedTransporterIds: the transporterIds of the shipments of the list
\* that have one and are assigned or in-transit.
assignedTransporterIds(list) ==
  {list[id].transporterId :
     id \in {i \in DOMAIN list :
               /\ list[i].transporterId \notin {NoTransporter, EmptyTransporterId}
               /\ (list[i].status = "assigned" \/ list[i].status = "in-transit")}}

\* isTransporterAvailable that takes only status assigned for busy.
isTransporterAvailableAssignedOnly(list, transporterId, currentShipmentId) ==
  LET busyShipment == {id \in DOMAIN list :
                         /\ list[id].transporterId = transporterId
                         /\ list[id].status = "assigned"
                         /\ id # currentShipmentId}
  IN  busyShipment = {}

\* isTransporterAvailable without the exclusion of the current shipment.
isTransporterAvailableNoExclusion(list, transporterId, currentShipmentId) ==
  LET busyShipment == {id \in DOMAIN list :
                         /\ list[id].transporterId = transporterId
                         /\ (list[id].status = "assigned" \/ list[id].status = "in-transit")}
  IN  busyShipment = {}

\* isTransporterAvailable(transporterId, currentShipmentId) over a shipment list.
isTransporterAvailable(list, transporterId, currentShipmentId) ==
  LET busyShipment == {id \in DOMAIN list :
                         /\ list[id].transporterId = transporterId
                         /\ (list[id].status = "assigned" \/ list[id].status = "in-transit")
                         /\ id # currentShipmentId}
  IN  busyShipment = {}

\* The switch of the tick without its in-transit stage: an assigned
\* shipment that advances is delivered at once.
NextStatusSkipsStage(status, advance) ==
  CASE status = "not-assigned" -> "not-assigned"
    [] status = "assigned"     -> IF advance THEN "delivered" ELSE "assigned"
    [] status = "in-transit"   -> IF advance THEN "delivered" ELSE "in-transit"
    [] OTHER -> status

\* The status a tick computes from the status of its shipment; advance is
\* the outcome of the random draw (Math.random() above the threshold).
NextStatus(status, advance) ==
  CASE status = "not-assigned" -> "not-assigned"
    [] status = "assigned"     -> IF advance THEN "in-transit" ELSE "assigned"
    [] status = "in-transit"   -> IF advance THEN "delivered" ELSE "in-transit"
    [] status \in {"delivered", "cancelled"} -> status
    [] OTHER -> status

\* No isTransporterAvailable call has been made yet.
NoQuery == [getter |-> "none", transporterId |-> NoId, currentShipmentId |-> NoId,
            available |-> TRUE, compatible |-> {}]

\* No view is mounted yet.
NoView == [page |-> "none", route |-> NoId, mounted |-> "none",
           selectedTransporterId |-> EmptyTransporterId, navigations |-> 0]

Init ==
  /\ schemaShipments = [id \in ShipmentIds |-> SeedOf(id)]
  /\ shipments = << >>
  /\ updateInterval = null
  /\ activeTimers = {}
  /\ assignReqs = {}
  /\ statusReqs = {}
  /\ fetchReqs = {}
  /\ assignResps = {}
  /\ statusResps = {}
  /\ fetchResps = {}
  /\ fetchCount = 0
  /\ requestCount = 0
  /\ currentShipment = NoShipment
  /\ transporters = << >>
  /\ loading = FALSE
  /\ error = NoError
  /\ query = NoQuery
  /\ view = NoView
  /\ realTimeUpdateErrors = 0

\* The ticks whose captured shipment object is no longer an element of the
\* store's list once the list entries of the ids in replaced are replaced.
Orphan(msgs, replaced) ==
  {IF m.id \in replaced THEN [m EXCEPT !.captured = FALSE] ELSE m : m \in msgs}

\* window.setInterval: the handle of the new timer, a positive integer.
setInterval(timers) == CHOOSE t \in 1..(Cardinality(timers) + 1) : t \notin timers

\* ---- fetchShipments ----

\* fetchShipments() sends GET /api/shipments.
FetchShipments ==
  /\ fetchCount < MaxFetches
  /\ fetchCount' = fetchCount + 1
  /\ InFlight < MaxInFlight
  /\ fetchReqs = {}
  /\ fetchReqs' = {[url |-> "/api/shipments"]}
  /\ UNCHANGED << schemaShipments, shipments, updateInterval, activeTimers,
                  assignReqs, statusReqs, assignResps, statusResps, fetchResps,
                  requestCount >>
  /\ loading' = TRUE
  /\ error' = NoError
  /\ UNCHANGED << currentShipment, transporters, query, view, realTimeUpdateErrors >>

\* GET /shipments: the server returns all shipments.
ServerFetch ==
  \E q \in fetchReqs :
    /\ q.url = "/api/shipments"
    /\ fetchReqs' = fetchReqs \ {q}
    /\ fetchResps' = fetchResps \cup {[url |-> q.url, code |-> 200,
                                       body |-> [shipments |-> schemaShipments]]}
    /\ UNCHANGED << schemaShipments, shipments, updateInterval, activeTimers,
                    assignReqs, statusReqs, assignResps, statusResps,
                    fetchCount, requestCount,
                    currentShipment, transporters, loading, error, query, view, realTimeUpdateErrors >>

\* fetchShipments() resumes with the response: the list is replaced.
FetchShipmentsDone ==
  \E p \in fetchResps :
    /\ p.url = "/api/shipments"
    /\ fetchResps' = fetchResps \ {p}
    /\ shipments' = p.body.shipments
    /\ statusReqs' = Orphan(statusReqs, ShipmentIds)
    /\ statusResps' = Orphan(statusResps, ShipmentIds)
    /\ UNCHANGED << schemaShipments, updateInterval, activeTimers,
                    assignReqs, fetchReqs, assignResps,
                    fetchCount, requestCount >>
    /\ loading' = FALSE
    /\ UNCHANGED << currentShipment, transporters, error, query, view, realTimeUpdateErrors >>

\* ---- fetchShipmentById ----

\* fetchShipmentById(id) sends GET /api/shipments/:id.
fetchShipmentById(id) ==
  /\ requestCount < MaxRequests
  /\ requestCount' = requestCount + 1
  /\ InFlight < MaxInFlight
  /\ fetchReqs' = fetchReqs \cup {[url |-> "/api/shipments/:id", id |-> id]}
  /\ loading' = TRUE
  /\ error' = NoError
  /\ UNCHANGED << schemaShipments, shipments, updateInterval, activeTimers,
                  assignReqs, statusReqs, assignResps, statusResps, fetchResps,
                  fetchCount, currentShipment, transporters, query, view, realTimeUpdateErrors >>

\* The body of a response whose handler returned null: the JSON value null.
NullBody == [null |-> TRUE]

\* GET /shipments/:id: schema.find('shipment', id), which is the shipment,
\* or null when no shipment has the id; a 400 without an id.
FindHandler(db, id) ==
  IF id = ""
  THEN ErrorResponse(400, << "Shipment ID is required" >>)
  ELSE IF id \in DOMAIN db
       THEN ShipmentResponse(db[id])
       ELSE [code |-> 200, body |-> NullBody]

\* GET /shipments/:id: the server answers with what the handler returns.
ServerFetchShipment ==
  \E q \in fetchReqs :
    /\ q.url = "/api/shipments/:id"
    /\ fetchReqs' = fetchReqs \ {q}
    /\ fetchResps' = fetchResps \cup
          {[url |-> q.url, id |-> q.id,
            code |-> FindHandler(schemaShipments, q.id).code,
            body |-> FindHandler(schemaShipments, q.id).body]}
    /\ UNCHANGED << schemaShipments, shipments, updateInterval, activeTimers,
                    assignReqs, statusReqs, assignResps, statusResps,
                    fetchCount, requestCount,
                    currentShipment, transporters, loading, error, query, view, realTimeUpdateErrors >>

\* fetchShipmentById() resumes with the response: currentShipment is set to
\* the shipment of the body (to nothing when the body has none); reading
\* the shipment of a null body throws, and the catch block sets the error.
fetchShipmentByIdDone ==
  \E p \in fetchResps :
    /\ p.url = "/api/shipments/:id"
    /\ fetchResps' = fetchResps \ {p}
    /\ IF p.body = NullBody
       THEN /\ error' = << "Failed to fetch shipment" >>
            /\ UNCHANGED currentShipment
       ELSE /\ currentShipment' = IF "shipment" \in DOMAIN p.body
                                  THEN << p.body.shipment >>
                                  ELSE NoShipment
            /\ UNCHANGED error
    /\ loading' = FALSE
    /\ UNCHANGED << schemaShipments, shipments, updateInterval, activeTimers,
                    assignReqs, statusReqs, fetchReqs, assignResps, statusResps,
                    fetchCount, requestCount, transporters, query, view, realTimeUpdateErrors >>

\* ---- fetchTransporters ----

\* fetchTransporters() sends GET /api/transporters.
fetchTransporters ==
  /\ requestCount < MaxRequests
  /\ requestCount' = requestCount + 1
  /\ InFlight < MaxInFlight
  /\ fetchReqs' = fetchReqs \cup {[url |-> "/api/transporters"]}
  /\ loading' = TRUE
  /\ error' = NoError
  /\ UNCHANGED << schemaShipments, shipments, updateInterval, activeTimers,
                  assignReqs, statusReqs, assignResps, statusResps, fetchResps,
                  fetchCount, currentShipment, transporters, query, view, realTimeUpdateErrors >>

\* GET /transporters: the server returns all transporters.
ServerFetchTransporters ==
  \E q \in fetchReqs :
    /\ q.url = "/api/transporters"
    /\ fetchReqs' = fetchReqs \ {q}
    /\ fetchResps' = fetchResps \cup {[url |-> q.url, code |-> 200,
                                       body |-> [transporters |-> seedTransporters]]}
    /\ UNCHANGED << schemaShipments, shipments, updateInterval, activeTimers,
                    assignReqs, statusReqs, assignResps, statusResps,
                    fetchCount, requestCount,
                    currentShipment, transporters, loading, error, query, view, realTimeUpdateErrors >>

\* fetchTransporters() resumes with the response: the list is set.
fetchTransportersDone ==
  \E p \in fetchResps :
    /\ p.url = "/api/transporters"
    /\ fetchResps' = fetchResps \ {p}
    /\ transporters' = p.body.transporters
    /\ loading' = FALSE
    /\ UNCHANGED << schemaShipments, shipments, updateInterval, activeTimers,
                    assignReqs, statusReqs, fetchReqs, assignResps, statusResps,
                    fetchCount, requestCount, currentShipment, error, query, view, realTimeUpdateErrors >>

\* ---- assignTransporterToShipment ----

\* assignTransporterToShipment(shipmentId, transporterId) sends the PATCH.
AssignSend(shipmentId, transporterId) ==
  /\ requestCount < MaxRequests
  /\ requestCount' = requestCount + 1
  /\ InFlight < MaxInFlight
  /\ \A q \in assignReqs \cup assignResps :
        ~(q.id = shipmentId /\ q.transporterId = transporterId)
  /\ assignReqs' = assignReqs \cup
        {[id |-> shipmentId, transporterId |-> transporterId, rival |-> NoId]}
  /\ UNCHANGED << schemaShipments, shipments, updateInterval, activeTimers,
                  statusReqs, fetchReqs, assignResps, statusResps, fetchResps,
                  fetchCount >>
  /\ loading' = TRUE
  /\ error' = NoError
  /\ UNCHANGED << currentShipment, transporters, query, view, realTimeUpdateErrors >>

\* History kept in the outstanding requests: rival is the shipment whose
\* assign of the same, until then free, transporter was applied while this
\* request for another shipment of the transporter's vehicle type was waiting.
Raced(o, q, db) ==
  /\ o.transporterId = q.transporterId
  /\ o.id # q.id
  /\ o.id \in DOMAIN db
  /\ q.transporterId \in TransporterIds
  /\ db[o.id].vehicleType = Transporter(q.transporterId).vehicleType
  /\ \A id \in DOMAIN db :
        ~(db[id].transporterId = q.transporterId /\ db[id].status \in Busy)

\* History kept in a response: status and transporterId of the request's
\* shipment as they were when the server took the request up.
Before(db, id) ==
  IF id \in DOMAIN db
  THEN [status |-> db[id].status, transporterId |-> db[id].transporterId]
  ELSE [status |-> NoId, transporterId |-> NoId]

\* The server handles one assign request, from validation to update.
ServerAssign(q) ==
  LET r == AssignHandler(schemaShipments, q.id, q.transporterId)
  IN  /\ schemaShipments' = r.db
      /\ assignReqs' =
           {IF r.response.code = 200 /\ Raced(o, q, schemaShipments)
            THEN [o EXCEPT !.rival = q.id] ELSE o : o \in assignReqs \ {q}}
      /\ assignResps' = assignResps \cup
           {[id |-> q.id, transporterId |-> q.transporterId, rival |-> q.rival,
             before |-> Before(schemaShipments, q.id), response |-> r.response]}
      /\ UNCHANGED << shipments, updateInterval, activeTimers,
                      statusReqs, fetchReqs, statusResps, fetchResps,
                      fetchCount, requestCount,
                      currentShipment, transporters, loading, error, query, view, realTimeUpdateErrors >>

\* A fetch that rejects instead of resolving with a response: code 0 and
\* the message of the exception.
TransportFailure == [code |-> 0, body |-> [errors |-> << >>],
                     message |-> << "Failed to fetch" >>]

\* assignTransporterToShipment whose catch block keeps the error to itself.
AssignResultSilent(response) ==
  IF response.code = 200
  THEN [success |-> TRUE, shipment |-> response.body.shipment]
  ELSE [success |-> FALSE, error |-> NoError]

\* What assignTransporterToShipment returns for a response: the shipment of
\* a 2xx response, otherwise the message of the exception, which is that of
\* the rejected fetch or the first error message of the body.
AssignResult(response) ==
  IF response.code = 200
  THEN [success |-> TRUE, shipment |-> response.body.shipment]
  ELSE [success |-> FALSE,
        error |-> IF response.code = TransportFailure.code
                  THEN response.message
                  ELSE IF Len(response.body.errors) > 0
                       THEN response.body.errors[1]
                       ELSE << "Failed to assign transporter" >>]

\* The fetch of an assign request rejects before the request reaches the server.
AssignRequestFailed(q) ==
  /\ assignReqs' = assignReqs \ {q}
  /\ assignResps' = assignResps \cup
        {[id |-> q.id, transporterId |-> q.transporterId, rival |-> q.rival,
          before |-> Before(schemaShipments, q.id), response |-> TransportFailure]}
  /\ UNCHANGED << schemaShipments, shipments, updateInterval, activeTimers,
                  statusReqs, fetchReqs, statusResps, fetchResps,
                  fetchCount, requestCount,
                  currentShipment, transporters, loading, error, query, view, realTimeUpdateErrors >>

\* The fetch of an assign request rejects after the server handled it.
AssignResponseFailed(p) ==
  /\ p.response.code # TransportFailure.code
  /\ assignResps' = (assignResps \ {p}) \cup {[p EXCEPT !.response = TransportFailure]}
  /\ UNCHANGED << schemaShipments, shipments, updateInterval, activeTimers,
                  assignReqs, statusReqs, fetchReqs, statusResps, fetchResps,
                  fetchCount, requestCount,
                  currentShipment, transporters, loading, error, query, view, realTimeUpdateErrors >>

\* assignTransporterToShipment() resumes with the response.
AssignDone(p) ==
  /\ assignResps' = assignResps \ {p}
  /\ IF p.response.code = 200 /\ p.id \in DOMAIN shipments
     THEN /\ shipments' = [shipments EXCEPT ![p.id] = p.response.body.shipment]
          /\ statusReqs' = Orphan(statusReqs, {p.id})
          /\ statusResps' = Orphan(statusResps, {p.id})
     ELSE UNCHANGED << shipments, statusReqs, statusResps >>
  /\ IF p.response.code = 200 /\ currentShipment # NoShipment /\ currentShipment[1].id = p.id
     THEN currentShipment' = << p.response.body.shipment >>
     ELSE UNCHANGED currentShipment
  /\ error' = IF AssignResult(p.response).success THEN error
              ELSE AssignResult(p.response).error
  /\ loading' = FALSE
  /\ UNCHANGED << schemaShipments, updateInterval, activeTimers,
                  assignReqs, fetchReqs, fetchResps,
                  fetchCount, requestCount, transporters, query, view, realTimeUpdateErrors >>

\* ---- the status simulator ----

\* start without the "already running" check: every call sets a timer.
startRealTimeUpdatesUnguarded ==
  /\ Cardinality(activeTimers) < MaxTimers
  /\ updateInterval' = setInterval(activeTimers)
  /\ activeTimers' = activeTimers \cup {setInterval(activeTimers)}
  /\ UNCHANGED << schemaShipments, shipments, assignReqs, statusReqs, fetchReqs,
                  assignResps, statusResps, fetchResps,
                  fetchCount, requestCount,
                  currentShipment, transporters, loading, error, query, view, realTimeUpdateErrors >>

startRealTimeUpdates ==
  /\ IF updateInterval # null
     THEN UNCHANGED << updateInterval, activeTimers >>
     ELSE /\ Cardinality(activeTimers) < MaxTimers
          /\ updateInterval' = setInterval(activeTimers)
          /\ activeTimers' = activeTimers \cup {setInterval(activeTimers)}
  /\ UNCHANGED << schemaShipments, shipments, assignReqs, statusReqs, fetchReqs,
                  assignResps, statusResps, fetchResps,
                  fetchCount, requestCount,
                  currentShipment, transporters, loading, error, query, view, realTimeUpdateErrors >>

\* stop that forgets the handle without clearing the interval.
stopRealTimeUpdatesKeepsTimer ==
  /\ updateInterval' = null
  /\ UNCHANGED activeTimers
  /\ UNCHANGED << schemaShipments, shipments, assignReqs, statusReqs, fetchReqs,
                  assignResps, statusResps, fetchResps,
                  fetchCount, requestCount,
                  currentShipment, transporters, loading, error, query, view, realTimeUpdateErrors >>

stopRealTimeUpdates ==
  /\ IF updateInterval # null
     THEN /\ activeTimers' = activeTimers \ {updateInterval}
          /\ updateInterval' = null
     ELSE UNCHANGED << updateInterval, activeTimers >>
  /\ UNCHANGED << schemaShipments, shipments, assignReqs, statusReqs, fetchReqs,
                  assignResps, statusResps, fetchResps,
                  fetchCount, requestCount,
                  currentShipment, transporters, loading, error, query, view, realTimeUpdateErrors >>

\* One firing of a timer: a shipment of the list is chosen at random, its
\* next status is computed and sent to the server.  History kept in the
\* request: logged is the number of failures logged before this tick.
Tick(id, advance) ==
  /\ requestCount < MaxRequests
  /\ requestCount' = requestCount + 1
  /\ activeTimers # {}
  /\ id \in DOMAIN shipments
  /\ InFlight < MaxInFlight
  /\ statusReqs' = statusReqs \cup
        {[id |-> id, status |-> NextStatus(shipments[id].status, advance),
          captured |-> TRUE, logged |-> realTimeUpdateErrors]}
  /\ UNCHANGED << schemaShipments, shipments, updateInterval, activeTimers,
                  assignReqs, fetchReqs, assignResps, statusResps, fetchResps,
                  fetchCount,
                  currentShipment, transporters, loading, error, query, view, realTimeUpdateErrors >>

\* The server handles one status request.
ServerStatus(q) ==
  LET r == StatusHandler(schemaShipments, q.id, q.status)
  IN  /\ schemaShipments' = r.db
      /\ statusReqs' = statusReqs \ {q}
      /\ statusResps' = statusResps \cup
           {[id |-> q.id, captured |-> q.captured, logged |-> q.logged,
             response |-> r.response]}
      /\ UNCHANGED << shipments, updateInterval, activeTimers,
                      assignReqs, fetchReqs, assignResps, fetchResps,
                      fetchCount, requestCount,
                      currentShipment, transporters, loading, error, query, view, realTimeUpdateErrors >>

\* The tick's continuation where the catch block also stops the simulator.
TickDoneStopsOnError(p) ==
  /\ statusResps' = statusResps \ {p}
  /\ IF p.response.code = 200 /\ p.captured
     THEN shipments' = [shipments EXCEPT ![p.id].status = p.response.body.shipment.status]
     ELSE UNCHANGED shipments
  /\ IF p.response.code = 200 /\ currentShipment # NoShipment /\ currentShipment[1].id = p.id
     THEN currentShipment' =
            << [currentShipment[1] EXCEPT !.status = p.response.body.shipment.status] >>
     ELSE UNCHANGED currentShipment
  /\ realTimeUpdateErrors' = IF p.response.code = 200 THEN realTimeUpdateErrors
                             ELSE realTimeUpdateErrors + 1
  /\ IF p.response.code = 200
     THEN UNCHANGED << updateInterval, activeTimers >>
     ELSE /\ activeTimers' = activeTimers \ {updateInterval}
          /\ updateInterval' = null
  /\ UNCHANGED << schemaShipments,
                  assignReqs, statusReqs, fetchReqs, assignResps, fetchResps,
                  fetchCount, requestCount, transporters, loading, error, query, view >>

\* The tick's continuation: the captured shipment object takes the status
\* of the response; without a shipment in the response, or without a
\* response, the catch block logs the failure.
TickDone(p) ==
  /\ statusResps' = statusResps \ {p}
  /\ IF p.response.code = 200 /\ p.captured
     THEN shipments' = [shipments EXCEPT ![p.id].status = p.response.body.shipment.status]
     ELSE UNCHANGED shipments
  /\ IF p.response.code = 200 /\ currentShipment # NoShipment /\ currentShipment[1].id = p.id
     THEN currentShipment' =
            << [currentShipment[1] EXCEPT !.status = p.response.body.shipment.status] >>
     ELSE UNCHANGED currentShipment
  /\ realTimeUpdateErrors' = IF p.response.code = 200 THEN realTimeUpdateErrors
                             ELSE realTimeUpdateErrors + 1
  /\ UNCHANGED << schemaShipments, updateInterval, activeTimers,
                  assignReqs, statusReqs, fetchReqs, assignResps, fetchResps,
                  fetchCount, requestCount, transporters, loading, error, query, view >>

\* The fetch of a tick rejects before the request reaches the server.
TickRequestFailed(q) ==
  /\ statusReqs' = statusReqs \ {q}
  /\ statusResps' = statusResps \cup
        {[id |-> q.id, captured |-> q.captured, logged |-> q.logged,
          response |-> TransportFailure]}
  /\ UNCHANGED << schemaShipments, shipments, updateInterval, activeTimers,
                  assignReqs, fetchReqs, assignResps, fetchResps,
                  fetchCount, requestCount,
                  currentShipment, transporters, loading, error, query, view, realTimeUpdateErrors >>

\* The fetch of a tick rejects after the server handled the request.
TickResponseFailed(p) ==
  /\ p.response.code # TransportFailure.code
  /\ statusResps' = (statusResps \ {p}) \cup {[p EXCEPT !.response = TransportFailure]}
  /\ UNCHANGED << schemaShipments, shipments, updateInterval, activeTimers,
                  assignReqs, statusReqs, fetchReqs, assignResps, fetchResps,
                  fetchCount, requestCount,
                  currentShipment, transporters, loading, error, query, view, realTimeUpdateErrors >>

\* ---- the computed lists of the shipment detail view ----

\* compatibleTransporters that leaves out the vehicle type.
compatibleTransportersAnyVehicle(current, transporterList, list) ==
  IF current = NoShipment THEN << >>
  ELSE LET isAvailable(transporter) ==
             isTransporterAvailable(list, transporter.id, current[1].id)
       IN  SelectSeq(transporterList, isAvailable)

\* compatibleTransporters: the transporters of the vehicle type of the
\* current shipment that are available to it.
compatibleTransporters(current, transporterList, list) ==
  IF current = NoShipment THEN << >>
  ELSE LET keep(transporter) ==
             LET hasMatchingVehicle == transporter.vehicleType = current[1].vehicleType
                 isAvailable == isTransporterAvailable(list, transporter.id, current[1].id)
             IN  hasMatchingVehicle /\ isAvailable
       IN  SelectSeq(transporterList, keep)

\* availableForReassignment: compatibleTransporters without the current one.
availableForReassignment(current, transporterList, list) ==
  IF current = NoShipment THEN << >>
  ELSE LET other(transporter) == transporter.id # current[1].transporterId
       IN  SelectSeq(compatibleTransporters(current, transporterList, list), other)

\* unavailableTransporters: the transporters of the vehicle type of the
\* current shipment that are not available to it.
unavailableTransporters(current, transporterList, list) ==
  IF current = NoShipment THEN << >>
  ELSE LET keep(transporter) ==
             LET hasMatchingVehicle == transporter.vehicleType = current[1].vehicleType
                 isUnavailable == ~isTransporterAvailable(list, transporter.id, current[1].id)
             IN  hasMatchingVehicle /\ isUnavailable
       IN  SelectSeq(transporterList, keep)

\* The ids of a list of transporters.
IdsOf(transporterList) == {transporterList[i].id : i \in 1..Len(transporterList)}

\* ---- the getters, called on a given list ----

\* The transporterIds the shipments of a given list carry.
QueryTransporterIds == {seedTransporters[1].id, seedTransporters[4].id}

\* The shipment lists the getters are called on: the seed shipments, each
\* with any status and with no transporter or one of QueryTransporterIds;
\* the store holds the list of the server, and no current shipment or the
\* first shipment of the list.
ShipmentLists ==
  {[id \in ShipmentIds |-> [id |-> id, status |-> status[id],
                            vehicleType |-> SeedOf(id).vehicleType,
                            transporterId |-> transporterId[id]]] :
     status \in [ShipmentIds -> Status],
     transporterId \in [ShipmentIds -> QueryTransporterIds \cup {NoTransporter}]}

InitQuery ==
  /\ shipments \in ShipmentLists
  /\ schemaShipments = shipments
  /\ currentShipment \in {NoShipment, << shipments[ShipmentOrder[1]] >>}
  /\ transporters = seedTransporters
  /\ updateInterval = null
  /\ activeTimers = {}
  /\ assignReqs = {}
  /\ statusReqs = {}
  /\ fetchReqs = {}
  /\ assignResps = {}
  /\ statusResps = {}
  /\ fetchResps = {}
  /\ fetchCount = 0
  /\ requestCount = 0
  /\ loading = FALSE
  /\ error = NoError
  /\ query = NoQuery
  /\ view = NoView
  /\ realTimeUpdateErrors = 0

\* A caller evaluates isTransporterAvailable(transporterId, currentShipmentId).
isTransporterAvailableCall(transporterId, currentShipmentId) ==
  /\ query' = [getter |-> "isTransporterAvailable",
               transporterId |-> transporterId,
               currentShipmentId |-> currentShipmentId,
               available |-> isTransporterAvailable(shipments, transporterId,
                                                    currentShipmentId),
               compatible |-> {}]
  /\ UNCHANGED << schemaShipments, shipments, updateInterval, activeTimers,
                  assignReqs, statusReqs, fetchReqs, assignResps, statusResps,
                  fetchResps, fetchCount, requestCount,
                  currentShipment, transporters, loading, error, view, realTimeUpdateErrors >>

\* The detail view evaluates compatibleTransporters.
compatibleTransportersCall ==
  /\ query' = [getter |-> "compatibleTransporters",
               transporterId |-> NoId,
               currentShipmentId |-> IF currentShipment = NoShipment THEN NoId
                                     ELSE currentShipment[1].id,
               available |-> TRUE,
               compatible |-> IdsOf(compatibleTransporters(currentShipment,
                                                           transporters, shipments))]
  /\ UNCHANGED << schemaShipments, shipments, updateInterval, activeTimers,
                  assignReqs, statusReqs, fetchReqs, assignResps, statusResps,
                  fetchResps, fetchCount, requestCount,
                  currentShipment, transporters, loading, error, view, realTimeUpdateErrors >>

\* The list views ask without a shipment to exclude, the detail view asks
\* with the id of the current shipment.
NextQuery ==
  \/ \E transporterId \in TransporterIds \cup {UnknownTransporterId},
        currentShipmentId \in {NoId} \cup {currentShipment[i].id : i \in 1..Len(currentShipment)} :
          isTransporterAvailableCall(transporterId, currentShipmentId)
  \/ compatibleTransportersCall

SpecQuery == InitQuery /\ [][NextQuery]_vars

\* The arguments assignTransporterToShipment is called with: every seed
\* shipment with every seed transporter, and the requests that name an
\* unknown shipment, an unknown transporter or no transporter.
AssignInputs ==
  (ShipmentIds \X TransporterIds) \cup
  { << ShipmentOrder[1], EmptyTransporterId >>,
    << ShipmentOrder[1], UnknownTransporterId >>,
    << UnknownShipmentId, EmptyTransporterId >>,
    << UnknownShipmentId, UnknownTransporterId >>,
    << UnknownShipmentId, seedTransporters[2].id >> }

Next ==
  \/ FetchShipments
  \/ ServerFetch
  \/ FetchShipmentsDone
  \/ \E in \in AssignInputs : AssignSend(in[1], in[2])
  \/ \E q \in assignReqs : ServerAssign(q)
  \/ \E p \in assignResps : AssignDone(p)
  \/ startRealTimeUpdates
  \/ stopRealTimeUpdates
  \/ \E id \in ShipmentIds, advance \in BOOLEAN : Tick(id, advance)
  \/ \E q \in statusReqs : ServerStatus(q)
  \/ \E p \in statusResps : TickDone(p)

Spec == Init /\ [][Next]_vars

\* ---- the views ----

\* What the requests and responses of the given urls are, among msgs.
OfUrl(msgs, urls) == {m \in msgs : m.url \in urls}

\* ShipmentListView is mounted: it calls fetchShipments().  The detail view
\* is left only once its onMounted has come to its end.
ShipmentListViewMounted ==
  /\ view.page \in {"none", "detail"}
  /\ view.page = "detail" => view.mounted = "done"
  /\ view.navigations < MaxNavigations
  /\ InFlight < MaxInFlight
  /\ view' = [page |-> "list", route |-> NoId, mounted |-> "none",
              selectedTransporterId |-> EmptyTransporterId,
              navigations |-> view.navigations + 1]
  /\ fetchReqs' = fetchReqs \cup {[url |-> "/api/shipments"]}
  /\ fetchCount' = fetchCount + 1
  /\ loading' = TRUE
  /\ error' = NoError
  /\ UNCHANGED << schemaShipments, shipments, updateInterval, activeTimers,
                  assignReqs, statusReqs, assignResps, statusResps, fetchResps,
                  requestCount, currentShipment, transporters, query,
                  realTimeUpdateErrors >>

\* toggleRealTime of the list view: the simulator is started or stopped.
toggleRealTime ==
  /\ view.page = "list"
  /\ IF updateInterval = null THEN startRealTimeUpdates ELSE stopRealTimeUpdates

\* The router replaces the list view, or nothing, by ShipmentDetailView for
\* the shipment id: the list view's onUnmounted stops the simulator, and
\* the detail view's onMounted starts with fetchShipments() if the list is
\* empty and with fetchShipmentById(id) and fetchTransporters() if not.
ShipmentDetailViewMounted(id) ==
  /\ view.page \in {"none", "list"}
  /\ view.navigations < MaxNavigations
  /\ InFlight < MaxInFlight
  /\ IF view.page = "list" /\ updateInterval # null
     THEN /\ activeTimers' = activeTimers \ {updateInterval}
          /\ updateInterval' = null
     ELSE UNCHANGED << updateInterval, activeTimers >>
  /\ IF DOMAIN shipments = {}
     THEN /\ fetchReqs' = fetchReqs \cup {[url |-> "/api/shipments"]}
          /\ fetchCount' = fetchCount + 1
     ELSE /\ fetchReqs' = fetchReqs \cup {[url |-> "/api/shipments/:id", id |-> id],
                                          [url |-> "/api/transporters"]}
          /\ UNCHANGED fetchCount
  /\ view' = [page |-> "detail", route |-> id,
              mounted |-> IF DOMAIN shipments = {} THEN "list" ELSE "details",
              selectedTransporterId |-> EmptyTransporterId,
              navigations |-> view.navigations + 1]
  /\ loading' = TRUE
  /\ error' = NoError
  /\ UNCHANGED << schemaShipments, shipments,
                  assignReqs, statusReqs, assignResps, statusResps, fetchResps,
                  requestCount, currentShipment, transporters, query,
                  realTimeUpdateErrors >>

\* onMounted of the detail view after its await fetchShipments():
\* fetchShipmentById(id) and fetchTransporters() are called together.
onMountedFetchDetails ==
  /\ view.page = "detail"
  /\ view.mounted = "list"
  /\ OfUrl(fetchReqs \cup fetchResps, {"/api/shipments"}) = {}
  /\ InFlight < MaxInFlight
  /\ fetchReqs' = fetchReqs \cup {[url |-> "/api/shipments/:id", id |-> view.route],
                                  [url |-> "/api/transporters"]}
  /\ view' = [view EXCEPT !.mounted = "details"]
  /\ loading' = TRUE
  /\ error' = NoError
  /\ UNCHANGED << schemaShipments, shipments, updateInterval, activeTimers,
                  assignReqs, statusReqs, assignResps, statusResps, fetchResps,
                  fetchCount, requestCount, currentShipment, transporters, query,
                  realTimeUpdateErrors >>

\* onMounted of the detail view after its await Promise.all: the
\* transporter of the current shipment, if it has one, is selected.
onMountedPreselect ==
  /\ view.page = "detail"
  /\ view.mounted = "details"
  /\ OfUrl(fetchReqs \cup fetchResps, {"/api/shipments/:id", "/api/transporters"}) = {}
  /\ view' = [view EXCEPT
                !.mounted = "done",
                !.selectedTransporterId =
                   IF /\ currentShipment # NoShipment
                      /\ currentShipment[1].transporterId
                            \notin {NoTransporter, EmptyTransporterId}
                   THEN currentShipment[1].transporterId
                   ELSE view.selectedTransporterId]
  /\ UNCHANGED << schemaShipments, shipments, updateInterval, activeTimers,
                  assignReqs, statusReqs, fetchReqs, assignResps, statusResps,
                  fetchResps, fetchCount, requestCount,
                  currentShipment, transporters, loading, error, query,
                  realTimeUpdateErrors >>

\* The form the template of the detail view shows: "assign" for a current
\* shipment that is not-assigned, "reassign" for one that is assigned and
\* has another candidate, "none" otherwise and while the store is loading.
Form ==
  IF view.page # "detail" \/ loading \/ currentShipment = NoShipment THEN "none"
  ELSE IF currentShipment[1].status = "not-assigned" THEN "assign"
  ELSE IF /\ currentShipment[1].status = "assigned"
          /\ Len(availableForReassignment(currentShipment, transporters, shipments)) # 0
       THEN "reassign"
       ELSE "none"

\* The transporters the select of the form offers.
Options ==
  IF Form = "assign"
  THEN IdsOf(compatibleTransporters(currentShipment, transporters, shipments))
  ELSE IF Form = "reassign"
       THEN IdsOf(availableForReassignment(currentShipment, transporters, shipments))
       ELSE {}

\* The user picks an option of the select (v-model selectedTransporterId).
selectTransporter(transporterId) ==
  /\ Form # "none"
  /\ transporterId \in Options \cup {EmptyTransporterId}
  /\ transporterId # view.selectedTransporterId
  /\ view' = [view EXCEPT !.selectedTransporterId = transporterId]
  /\ UNCHANGED << schemaShipments, shipments, updateInterval, activeTimers,
                  assignReqs, statusReqs, fetchReqs, assignResps, statusResps,
                  fetchResps, fetchCount, requestCount,
                  currentShipment, transporters, loading, error, query,
                  realTimeUpdateErrors >>

\* handleAssign: a click on the button of the form, which the assign form
\* disables without candidates; without a selection only the validation
\* message is set, otherwise the store's action is called with the id of
\* the route.
handleAssign ==
  /\ Form # "none"
  /\ Form = "assign" => Options # {}
  /\ view.selectedTransporterId # EmptyTransporterId
  /\ AssignSend(view.route, view.selectedTransporterId)

NextView ==
  \/ ShipmentListViewMounted
  \/ toggleRealTime
  \/ \E id \in ShipmentIds : ShipmentDetailViewMounted(id)
  \/ onMountedFetchDetails
  \/ onMountedPreselect
  \/ \E transporterId \in TransporterIds \cup {EmptyTransporterId} :
        selectTransporter(transporterId)
  \/ handleAssign
  \/ ServerFetch
  \/ FetchShipmentsDone
  \/ ServerFetchShipment
  \/ fetchShipmentByIdDone
  \/ ServerFetchTransporters
  \/ fetchTransportersDone
  \/ \E q \in assignReqs : ServerAssign(q)
  \/ \E p \in assignResps : AssignDone(p)
  \/ \E id \in ShipmentIds, advance \in BOOLEAN : Tick(id, advance)
  \/ \E q \in statusReqs : ServerStatus(q)
  \/ \E p \in statusResps : TickDone(p)

SpecView == Init /\ [][NextView]_vars

\* ---- the store where a fetch can reject ----

\* The arguments assignTransporterToShipment is called with where fetches
\* can reject: two shipments of one vehicle type and one transporter of
\* that type, one of another type, and an unknown shipment.
FailInputs ==
  { << ShipmentOrder[1], seedTransporters[1].id >>,
    << ShipmentOrder[3], seedTransporters[1].id >>,
    << ShipmentOrder[1], seedTransporters[2].id >>,
    << UnknownShipmentId, seedTransporters[1].id >> }

NextFail ==
  \/ FetchShipments
  \/ ServerFetch
  \/ FetchShipmentsDone
  \/ \E id \in {ShipmentOrder[1], UnknownShipmentId} : fetchShipmentById(id)
  \/ ServerFetchShipment
  \/ fetchShipmentByIdDone
  \/ \E in \in FailInputs : AssignSend(in[1], in[2])
  \/ \E q \in assignReqs : ServerAssign(q)
  \/ \E q \in assignReqs : AssignRequestFailed(q)
  \/ \E p \in assignResps : AssignResponseFailed(p)
  \/ \E p \in assignResps : AssignDone(p)
  \/ startRealTimeUpdates
  \/ stopRealTimeUpdates
  \/ \E id \in ShipmentIds, advance \in BOOLEAN : Tick(id, advance)
  \/ \E q \in statusReqs : ServerStatus(q)
  \/ \E q \in statusReqs : TickRequestFailed(q)
  \/ \E p \in statusResps : TickResponseFailed(p)
  \/ \E p \in statusResps : TickDone(p)

SpecFail == Init /\ [][NextFail]_vars

TypeOK ==
  /\ DOMAIN schemaShipments = ShipmentIds
  /\ \A id \in ShipmentIds : schemaShipments[id].status \in Status
  /\ InFlight <= MaxInFlight + 1

\* ------------------------------------------------------------------------
\* Error taxonomy
\* ------------------------------------------------------------------------

\* The kind of a response: Ok, or the error kind its code and message stand for.
ErrorKind(response) ==
  IF response.code = 200 THEN "Ok"
  ELSE IF response.code = 404 THEN "NotFound"
  ELSE LET message == response.body.errors[1]
       IN  IF message[1] = "Vehicle type mismatch: Shipment requires "
           THEN "VehicleTypeMismatch"
           ELSE IF message[1] = "Transporter "
           THEN "TransporterBusy"
           ELSE "InvalidRequest"

\* Some shipment other than id holds the transporter in status assigned or in-transit.
HeldByOther(db, id, transporterId) ==
  \E o \in DOMAIN db :
     o # id /\ db[o].transporterId = transporterId /\ db[o].status \in Busy

\* ------------------------------------------------------------------------
\* C1: no two distinct shipments with the same transporterId both have a
\* status in {assigned, in-transit}, in any state the server reaches from
\* the seed under assign requests and simulator status writes.
\* ------------------------------------------------------------------------
C1_NoDoubleBooking ==
  \A s1, s2 \in ShipmentIds :
     (/\ s1 # s2
      /\ schemaShipments[s1].transporterId # NoTransporter
      /\ schemaShipments[s1].transporterId = schemaShipments[s2].transporterId)
     => ~(schemaShipments[s1].status \in Busy /\ schemaShipments[s2].status \in Busy)

\* ------------------------------------------------------------------------
\* C2: at the server every not-assigned shipment has no transporterId and
\* every assigned, in-transit or delivered shipment has one (cancelled
\* shipments are exempt).
\* ------------------------------------------------------------------------
C2_StatusMatchesTransporter ==
  \A id \in ShipmentIds :
     /\ schemaShipments[id].status = "not-assigned"
          => schemaShipments[id].transporterId = NoTransporter
     /\ schemaShipments[id].status \in {"assigned", "in-transit", "delivered"}
          => schemaShipments[id].transporterId # NoTransporter

\* The responses to assign requests that the server produces in a step.
NewAssignResps == assignResps' \ assignResps

\* The outcome the order of the five preconditions prescribes for a request.
FirstFailure(db, id, transporterId) ==
  CASE id \notin DOMAIN db -> "NotFound"
    [] id \in DOMAIN db /\ transporterId = EmptyTransporterId -> "InvalidRequest"
    [] id \in DOMAIN db /\ transporterId # EmptyTransporterId
         /\ transporterId \notin TransporterIds -> "NotFound"
    [] id \in DOMAIN db /\ transporterId \in TransporterIds
         /\ db[id].vehicleType # Transporter(transporterId).vehicleType -> "VehicleTypeMismatch"
    [] id \in DOMAIN db /\ transporterId \in TransporterIds
         /\ db[id].vehicleType = Transporter(transporterId).vehicleType
         /\ HeldByOther(db, id, transporterId) -> "TransporterBusy"
    [] OTHER -> "Ok"

\* ------------------------------------------------------------------------
\* C3: an assign never succeeds when the vehicle types of the shipment and
\* of the transporter differ; when both exist and the types differ the
\* response is VehicleTypeMismatch and its message carries the shipment's
\* required type and the transporter's type.
\* ------------------------------------------------------------------------
C3_VehicleTypeRule ==
  [][\A p \in NewAssignResps :
       /\ p.response.code = 200 =>
            /\ p.id \in ShipmentIds
            /\ p.transporterId \in TransporterIds
            /\ schemaShipments[p.id].vehicleType = Transporter(p.transporterId).vehicleType
       /\ (/\ p.id \in ShipmentIds
           /\ p.transporterId \in TransporterIds
           /\ schemaShipments[p.id].vehicleType # Transporter(p.transporterId).vehicleType)
          => /\ ErrorKind(p.response) = "VehicleTypeMismatch"
             /\ LET message == p.response.body.errors[1]
                IN  \E i, j \in DOMAIN message :
                       /\ i < j
                       /\ message[i] = schemaShipments[p.id].vehicleType
                       /\ message[j] = Transporter(p.transporterId).vehicleType
             /\ schemaShipments' = schemaShipments
    ]_vars

\* A VehicleTypeMismatch response is on its way to the store.
C3_Witness ==
  \E p \in assignResps :
     /\ p.id \in ShipmentIds
     /\ p.transporterId \in TransporterIds
     /\ schemaShipments[p.id].vehicleType # Transporter(p.transporterId).vehicleType
     /\ ErrorKind(p.response) = "VehicleTypeMismatch"

\* ------------------------------------------------------------------------
\* C4: the response to an assign is the error of the first failing check in
\* the order shipment exists, transporterId non-empty, transporter exists,
\* vehicle types equal, transporter not busy on another shipment, for every
\* combination of failing checks.
\* ------------------------------------------------------------------------
C4_FirstFailureWins ==
  [][\A p \in NewAssignResps :
       ErrorKind(p.response) = FirstFailure(schemaShipments, p.id, p.transporterId)
    ]_vars

\* Two responses with several failing checks each are on their way: an
\* unknown shipment without transporterId answered NotFound, and a
\* transporter of the wrong type that is busy answered VehicleTypeMismatch.
C4_Witness ==
  /\ \E p \in assignResps :
        /\ p.id = UnknownShipmentId
        /\ p.transporterId = EmptyTransporterId
        /\ ErrorKind(p.response) = "NotFound"
  /\ \E p \in assignResps :
        /\ p.id \in ShipmentIds
        /\ HeldByOther(schemaShipments, p.id, p.transporterId)
        /\ ErrorKind(p.response) = "VehicleTypeMismatch"

\* ------------------------------------------------------------------------
\* C5: when all five preconditions hold, the assign returns the updated
\* shipment and leaves it with the requested transporterId and status
\* assigned, whatever its previous status and transporterId.
\* ------------------------------------------------------------------------
C5_AssignApplies ==
  [][\A p \in NewAssignResps :
       FirstFailure(schemaShipments, p.id, p.transporterId) = "Ok"
       => /\ p.response.code = 200
          /\ p.response.body.shipment = schemaShipments'[p.id]
          /\ schemaShipments'[p.id].transporterId = p.transporterId
          /\ schemaShipments'[p.id].status = "assigned"
    ]_vars

\* A successful assign of a shipment that was in transit or delivered with
\* another transporter is on its way to the store.
C5_Witness ==
  \E p \in assignResps :
     /\ p.response.code = 200
     /\ p.before.status \in {"in-transit", "delivered"}
     /\ p.before.transporterId \notin {NoTransporter, p.transporterId}
     /\ schemaShipments[p.id].status = "assigned"
     /\ schemaShipments[p.id].transporterId = p.transporterId

\* ------------------------------------------------------------------------
\* C6: of two assign requests for the same free transporter and two
\* different shipments of its vehicle type that are outstanding at the same
\* time, at most one succeeds and the other is rejected as TransporterBusy.
\* ------------------------------------------------------------------------

C7_Reassignment ==
  [][\A p \in NewAssignResps :
       LET S  == p.id
           T2 == p.transporterId
       IN  (/\ S \in ShipmentIds
            /\ T2 \in TransporterIds
            /\ schemaShipments[S].status = "assigned"
            /\ schemaShipments[S].transporterId \notin {NoTransporter, T2}
            /\ schemaShipments[S].vehicleType = Transporter(T2).vehicleType
            /\ \A o \in ShipmentIds :
                  ~(schemaShipments[o].transporterId = T2 /\ schemaShipments[o].status \in Busy))
           => LET T1 == schemaShipments[S].transporterId
              IN  /\ p.response.code = 200
                  /\ schemaShipments'[S].transporterId = T2
                  /\ schemaShipments'[S].status = "assigned"
                  /\ \A o \in ShipmentIds :
                        ~(schemaShipments'[o].transporterId = T1
                          /\ schemaShipments'[o].status \in Busy)
                  /\ \A o \in ShipmentIds \ {S} :
                        schemaShipments'[o].vehicleType = Transporter(T1).vehicleType
                        => ErrorKind(AssignHandler(schemaShipments', o, T1).response)
                             # "TransporterBusy"
    ]_vars

\* ------------------------------------------------------------------------
\* C8: once a shipment bound to T is delivered at the server and no other
\* shipment holds T in assigned or in-transit, T is available: assign(S', T)
\* succeeds for every other shipment S' of T's vehicle type, and the
\* store's isTransporterAvailable(T, S'.id) is true.
\* ------------------------------------------------------------------------

\* s is delivered with a transporter that no other shipment holds busy, and
\* o is another shipment of that transporter's vehicle type.
DeliveredFrees(s, o) ==
  /\ s # o
  /\ schemaShipments[s].status = "delivered"
  /\ schemaShipments[s].transporterId \in TransporterIds
  /\ ~HeldByOther(schemaShipments, s, schemaShipments[s].transporterId)
  /\ schemaShipments[o].vehicleType = Transporter(schemaShipments[s].transporterId).vehicleType

\* The store's list holds the server's status and transporterId of every shipment.
StoreAgrees ==
  /\ DOMAIN shipments = ShipmentIds
  /\ \A id \in ShipmentIds :
        /\ shipments[id].status = schemaShipments[id].status
        /\ shipments[id].transporterId = schemaShipments[id].transporterId

\* As claimed: the server accepts the assign and the store reports the
\* transporter available as soon as the server holds status delivered.
C8_DeliveredFreesEverywhere ==
  \A s, o \in ShipmentIds :
     DeliveredFrees(s, o)
     => /\ AssignHandler(schemaShipments, o, schemaShipments[s].transporterId).response.code = 200
        /\ isTransporterAvailable(shipments, schemaShipments[s].transporterId, o)

\* As amended: the server accepts the assign; the store reports the
\* transporter available once its list holds the server's current status
\* and transporterId of every shipment.
C8_DeliveredFrees ==
  \A s, o \in ShipmentIds :
     DeliveredFrees(s, o)
     => /\ AssignHandler(schemaShipments, o, schemaShipments[s].transporterId).response.code = 200
        /\ StoreAgrees
             => isTransporterAvailable(shipments, schemaShipments[s].transporterId, o)

\* A delivered shipment holds a transporter that another shipment of the
\* same vehicle type could take, and the store has caught up.
C8_Witness ==
  \E s, o \in ShipmentIds : DeliveredFrees(s, o) /\ StoreAgrees

\* ------------------------------------------------------------------------
\* C9: once a shipment is delivered or cancelled at the server, no status
\* write of the simulator changes its status.
\* ------------------------------------------------------------------------
C9_TerminalStatusKept ==
  [][assignResps' = assignResps
     => \A id \in ShipmentIds :
           schemaShipments[id].status \in {"delivered", "cancelled"}
           => schemaShipments'[id].status = schemaShipments[id].status
    ]_vars

\* ------------------------------------------------------------------------
\* C10: after any sequence of startRealTimeUpdates and stopRealTimeUpdates
\* calls at most one timer is active: it is the one updateInterval names,
\* and none is active when updateInterval is null.
\* ------------------------------------------------------------------------
C10_OneTimer ==
  /\ Cardinality(activeTimers) <= 1
  /\ activeTimers = IF updateInterval = null THEN {} ELSE {updateInterval}

\* The simulator is running on its one timer and a tick has sent a request.
C10_Witness ==
  /\ updateInterval # null
  /\ activeTimers = {updateInterval}
  /\ statusReqs # {}

\* ------------------------------------------------------------------------
\* C11: assignment and re-assignment are locked for in-transit, delivered
\* and cancelled shipments: whenever an assign issued through the detail
\* view is applied by the server, the status of the shipment at the server
\* at that moment is not-assigned or assigned.
\* ------------------------------------------------------------------------
C11_AppliedOnlyWhenUnlocked ==
  [][\A p \in NewAssignResps :
        p.response.code = 200 => p.before.status \in {"not-assigned", "assigned"}]_vars

\* ------------------------------------------------------------------------
\* C12: every change of a shipment's status at the server follows the
\* workflow not-assigned -> assigned -> in-transit -> delivered, or
\* assigned -> cancelled; a status never moves backwards.
\* ------------------------------------------------------------------------
Workflow ==
  { << "not-assigned", "assigned" >>, << "assigned", "in-transit" >>,
    << "in-transit", "delivered" >>, << "assigned", "cancelled" >> }

C12_StatusWorkflow ==
  [][\A id \in ShipmentIds :
       schemaShipments'[id].status # schemaShipments[id].status
       => << schemaShipments[id].status, schemaShipments'[id].status >> \in Workflow
    ]_vars

\* ------------------------------------------------------------------------
\* C13: a TransporterBusy rejection of assign(S, T) names a shipment other
\* than S that holds T in status assigned or in-transit at that moment; the
\* wording is "actively transporting" exactly when that shipment is
\* in-transit and "assigned to" exactly when it is assigned.
\* ------------------------------------------------------------------------
C13_BusyNamesHolder ==
  [][\A p \in NewAssignResps :
       ErrorKind(p.response) = "TransporterBusy"
       => LET message == p.response.body.errors[1]
              named   == message[6]
              wording == message[4]
          IN  /\ named \in ShipmentIds
              /\ named # p.id
              /\ schemaShipments[named].transporterId = p.transporterId
              /\ schemaShipments[named].status \in Busy
              /\ wording = "actively transporting"
                    <=> schemaShipments[named].status = "in-transit"
              /\ wording = "assigned to"
                    <=> schemaShipments[named].status = "assigned"
    ]_vars

\* A rejection that says "actively transporting" is on its way to the store.
C13_Witness ==
  \E p \in assignResps :
     /\ ErrorKind(p.response) = "TransporterBusy"
     /\ p.response.body.errors[1][4] = "actively transporting"

\* ------------------------------------------------------------------------
\* C14: the status route overwrites the status of an existing shipment with
\* any non-empty status, whatever the current status, and returns the
\* updated shipment; an unknown shipment is answered NotFound and a missing
\* status InvalidRequest, and both leave every shipment unchanged.
\* ------------------------------------------------------------------------
\* The responses to status requests that the server produces in a step.
NewStatusResps ==
  IF Cardinality(statusResps') > Cardinality(statusResps)
  THEN statusResps' \ statusResps
  ELSE {}

\* What the claim says of advanceStatus(id, st) on the database db.
StatusContract(db, id, st) ==
  LET r == StatusHandler(db, id, st)
  IN  IF id \notin DOMAIN db
      THEN ErrorKind(r.response) = "NotFound" /\ r.db = db
      ELSE IF st = ""
      THEN ErrorKind(r.response) = "InvalidRequest" /\ r.db = db
      ELSE /\ r.response.code = 200
           /\ r.response.body.shipment = r.db[id]
           /\ r.db[id] = [db[id] EXCEPT !.status = st]
           /\ \A o \in DOMAIN db \ {id} : r.db[o] = db[o]

\* Whenever the server handles a status request, the route keeps the
\* contract on the database of that moment for every shipment id and every
\* status, and the step is the route's result for the request handled.
C14_StatusOverwrite ==
  [][\A p \in NewStatusResps :
       /\ \A id \in ShipmentIds \cup {UnknownShipmentId}, st \in Status \cup {""} :
             StatusContract(schemaShipments, id, st)
       /\ p.response.code = 200
            => /\ schemaShipments'[p.id] = p.response.body.shipment
               /\ \A o \in ShipmentIds \ {p.id} : schemaShipments'[o] = schemaShipments[o]
    ]_vars

\* The server has answered a status request that took a shipment with a
\* transporter back to not-assigned.
C14_Witness ==
  \E p \in statusResps :
     /\ p.response.code = 200
     /\ p.response.body.shipment.status = "not-assigned"
     /\ p.response.body.shipment.transporterId # NoTransporter
     /\ schemaShipments[p.id] = p.response.body.shipment

\* ------------------------------------------------------------------------
\* C15: whenever the store's shipment and transporter lists equal the
\* server's, a transporter T is in compatibleTransporters(S) if and only if
\* assign(S, T) would succeed at the server.
\* ------------------------------------------------------------------------
C15_CompatibleIffAssignable ==
  (/\ query.getter = "compatibleTransporters"
   /\ currentShipment # NoShipment
   /\ shipments = schemaShipments
   /\ transporters = seedTransporters)
  => \A transporterId \in TransporterIds \cup {UnknownTransporterId, EmptyTransporterId} :
        transporterId \in query.compatible
        <=> AssignHandler(schemaShipments, currentShipment[1].id,
                          transporterId).response.code = 200

\* The lists agree, and the view computed the candidates of an assigned
\* shipment: its own transporter is one, while another transporter of its
\* vehicle type is held by another shipment and is none.
C15_Witness ==
  /\ query.getter = "compatibleTransporters"
  /\ currentShipment # NoShipment
  /\ shipments = schemaShipments
  /\ transporters = seedTransporters
  /\ currentShipment[1].status = "assigned"
  /\ currentShipment[1].transporterId \in query.compatible
  /\ \E other \in IdsOf(unavailableTransporters(currentShipment, transporters, shipments)) :
        /\ other \notin query.compatible
        /\ AssignHandler(schemaShipments, currentShipment[1].id, other).response.code = 400

\* ------------------------------------------------------------------------
\* C16: in every state of the store, every shipment of the list that has a
\* transporterId T has isTransporterAvailable(T, its id) true.
\* ------------------------------------------------------------------------
C16_BoundTransporterAvailable ==
  \A id \in DOMAIN shipments :
     shipments[id].transporterId # NoTransporter
     => isTransporterAvailable(shipments, shipments[id].transporterId, id)

\* As amended: the shipment itself never makes its transporter unavailable;
\* isTransporterAvailable(T, its id) is true exactly when no other shipment
\* of the list holds T in assigned or in-transit.
C16_OwnShipmentNeverBlocks ==
  \A id \in DOMAIN shipments :
     shipments[id].transporterId # NoTransporter
     => (isTransporterAvailable(shipments, shipments[id].transporterId, id)
         <=> ~HeldByOther(shipments, id, shipments[id].transporterId))

\* The list holds a shipment in transit whose own transporter is reported
\* available for it.
C16_Witness ==
  \E id \in DOMAIN shipments :
     /\ shipments[id].status = "in-transit"
     /\ shipments[id].transporterId # NoTransporter
     /\ isTransporterAvailable(shipments, shipments[id].transporterId, id)

\* ------------------------------------------------------------------------
\* C17: for every transporter id T and every shipment list,
\* isTransporterAvailable(T) without an excluded shipment is false exactly
\* when T is in assignedTransporterIds, that is exactly when some shipment
\* has transporterId T and status assigned or in-transit; not-assigned,
\* delivered and cancelled shipments never make T unavailable.
\* ------------------------------------------------------------------------
C17_UnavailableIffAssigned ==
  (query.transporterId # NoId /\ query.currentShipmentId = NoId)
  => /\ ~query.available <=> query.transporterId \in assignedTransporterIds(shipments)
     /\ ~query.available
          <=> \E id \in DOMAIN shipments :
                 /\ shipments[id].transporterId = query.transporterId
                 /\ shipments[id].status \in {"assigned", "in-transit"}
     /\ (\A id \in DOMAIN shipments :
            shipments[id].transporterId = query.transporterId
            => shipments[id].status \in {"not-assigned", "delivered", "cancelled"})
        => query.available

\* The getter was asked, without an excluded shipment, for a transporter
\* that a delivered, a cancelled and a not-assigned shipment carry, and
\* answered that it is available.
C17_Witness ==
  /\ query.transporterId # NoId
  /\ query.currentShipmentId = NoId
  /\ query.available
  /\ \A st \in {"not-assigned", "delivered", "cancelled"} :
        \E id \in DOMAIN shipments :
           /\ shipments[id].transporterId = query.transporterId
           /\ shipments[id].status = st

\* ------------------------------------------------------------------------
\* C18: assignTransporterToShipment never raises: when the server rejects
\* the request or the fetch rejects, it returns {success: false, error}
\* with the first error message of the server (the message of the
\* exception when there is no response), sets the store's error to that
\* message, leaves shipments and currentShipment as they are and ends with
\* loading = false.
\* ------------------------------------------------------------------------
C18_AssignFailureIsReturned ==
  [][\A p \in assignResps \ assignResps' :
        (p.response.code # 200 /\ Cardinality(assignResps') < Cardinality(assignResps))
        => /\ AssignResult(p.response).success = FALSE
           /\ AssignResult(p.response).error =
                 IF p.response.code = TransportFailure.code
                 THEN TransportFailure.message
                 ELSE p.response.body.errors[1]
           /\ error' = AssignResult(p.response).error
           /\ error' # NoError
           /\ shipments' = shipments
           /\ currentShipment' = currentShipment
           /\ loading' = FALSE]_vars

\* A rejected assign has returned: the store holds the server's message,
\* nothing is loading, and the list and the current shipment are loaded.
C18_Witness ==
  /\ error # NoError
  /\ error # TransportFailure.message
  /\ ~loading
  /\ currentShipment # NoShipment
  /\ DOMAIN shipments # {}
  /\ assignReqs = {} /\ assignResps = {}

\* ------------------------------------------------------------------------
\* C19: when a tick's status request fails (error response or rejected
\* fetch), the tick changes no status in shipments or currentShipment, the
\* timer stays as it is, later ticks still fire, and the failed request is
\* not sent again.
\* ------------------------------------------------------------------------
C19_FailedTickChangesNothing ==
  [][realTimeUpdateErrors' # realTimeUpdateErrors
     => /\ shipments' = shipments
        /\ currentShipment' = currentShipment
        /\ activeTimers' = activeTimers
        /\ updateInterval' = updateInterval
        /\ statusReqs' = statusReqs
        /\ requestCount' = requestCount
        /\ schemaShipments' = schemaShipments]_vars

\* After a tick has failed and was logged, the timer is still set and a
\* tick that fired later was applied by the server.
C19_Witness ==
  /\ realTimeUpdateErrors > 0
  /\ activeTimers # {}
  /\ updateInterval # null
  /\ \E p \in statusResps :
        /\ p.logged > 0
        /\ p.response.code = 200
        /\ p.response.body.shipment.status = "in-transit"

\* ------------------------------------------------------------------------
\* C20: a tick sends a status request only when the status it computed
\* differs from the status of the chosen shipment.
\* ------------------------------------------------------------------------
C20_TickSkipsSelfLoop ==
  [][\A q \in statusReqs' \ statusReqs :
       q.id \in DOMAIN shipments => q.status # shipments[q.id].status
    ]_vars

\* ------------------------------------------------------------------------
\* C21: after stopRealTimeUpdates no tick fires and no status request is
\* sent until the next start; stopping takes nothing back: the requests and
\* responses in flight stay, and a status request the server handles while
\* the simulator is stopped is still applied.
\* ------------------------------------------------------------------------
C21_StopCancelsTicksOnly ==
  [][/\ (requestCount' # requestCount /\ assignReqs' = assignReqs)
          => (updateInterval # null /\ activeTimers # {})
     /\ updateInterval = null
          => {<< q.id, q.status >> : q \in statusReqs'}
               \subseteq {<< q.id, q.status >> : q \in statusReqs}
     /\ (updateInterval # null /\ updateInterval' = null)
          => /\ activeTimers' = {}
             /\ statusReqs' = statusReqs
             /\ statusResps' = statusResps
             /\ schemaShipments' = schemaShipments
     /\ \A p \in NewStatusResps :
          (updateInterval = null /\ p.response.code = 200)
          => schemaShipments'[p.id].status = p.response.body.shipment.status]_vars

\* The simulator was stopped while a status request that changes a status
\* was on its way to the server.
C21_Witness ==
  /\ updateInterval = null
  /\ activeTimers = {}
  /\ \E q \in statusReqs : schemaShipments[q.id].status # q.status

\* ------------------------------------------------------------------------
\* C22: GET /shipments/:id for an id that no shipment has answers with a
\* NotFound error, and no GET changes a shipment at the server.
\* ------------------------------------------------------------------------
NewFetchResps ==
  IF Cardinality(fetchResps') > Cardinality(fetchResps)
  THEN fetchResps' \ fetchResps
  ELSE {}

C22_ReadsNotFoundOrPure ==
  [][\A p \in NewFetchResps :
        /\ schemaShipments' = schemaShipments
        /\ (p.url = "/api/shipments/:id" /\ p.id \notin DOMAIN schemaShipments)
             => ErrorKind(p) = "NotFound"]_vars

\* ------------------------------------------------------------------------
\* C23: no step adds or removes a shipment at the server; a step changes at
\* most one shipment there, and of that shipment only status and
\* transporterId; a step in which the server handles a status request leaves
\* every transporterId as it was; the store's transporter list changes only
\* when a fetch response is taken.
\* ------------------------------------------------------------------------
C23_FrameEffects ==
  [][/\ DOMAIN schemaShipments' = DOMAIN schemaShipments
     /\ Cardinality({id \in DOMAIN schemaShipments :
                       schemaShipments'[id] # schemaShipments[id]}) <= 1
     /\ \A id \in DOMAIN schemaShipments :
          /\ schemaShipments'[id].id = id
          /\ schemaShipments'[id].vehicleType = schemaShipments[id].vehicleType
          /\ (\E q \in statusReqs : statusReqs' = statusReqs \ {q})
               => schemaShipments'[id].transporterId = schemaShipments[id].transporterId
     /\ transporters' # transporters
          => Cardinality(fetchResps') < Cardinality(fetchResps)]_vars

\* The server has applied an assign and then a status request to one
\* shipment, which still has the transporter of the assign.
C23_Witness ==
  \E a \in assignResps, p \in statusResps :
     /\ a.response.code = 200
     /\ p.response.code = 200
     /\ a.id = p.id
     /\ SeedOf(a.id).status = "not-assigned"
     /\ schemaShipments[a.id].status = "delivered"
     /\ schemaShipments[a.id].transporterId = a.transporterId

\* ------------------------------------------------------------------------
\* C24: the status a tick sends for the shipment it selects is one the table
\* allows for the status the store's list holds for that shipment: the same
\* status or, for assigned and in-transit, the next stage; the switch
\* allows nothing else for any status and any draw.
\* ------------------------------------------------------------------------
TickTable(status) ==
  CASE status = "not-assigned" -> {"not-assigned"}
    [] status = "assigned"     -> {"assigned", "in-transit"}
    [] status = "in-transit"   -> {"in-transit", "delivered"}
    [] status = "delivered"    -> {"delivered"}
    [] status = "cancelled"    -> {"cancelled"}

C24_TickFollowsTable ==
  [][(/\ requestCount' = requestCount + 1
      /\ assignReqs' = assignReqs
      /\ fetchReqs' = fetchReqs)
     => /\ \E q \in statusReqs' :
             /\ statusReqs' = statusReqs \cup {q}
             /\ q.id \in DOMAIN shipments
             /\ q.status \in TickTable(shipments[q.id].status)
        /\ \A status \in Status, advance \in BOOLEAN :
             NextStatus(status, advance) \in TickTable(status)]_vars

\* A tick has computed delivered for a shipment the list holds as
\* in-transit, and the request is on its way.
C24_Witness ==
  \E q \in statusReqs :
     /\ q.id \in DOMAIN shipments
     /\ shipments[q.id].status = "in-transit"
     /\ q.status = "delivered"
     /\ q.captured

\* ------------------------------------------------------------------------
\* C25: an assign of the transporter a shipment already has, handled while
\* the shipment is assigned, succeeds and leaves the server's shipments as
\* they were; availableForReassignment of the current shipment nevertheless
\* omits that transporter.
\* ------------------------------------------------------------------------
SameAssign(q) ==
  /\ q.id \in DOMAIN schemaShipments
  /\ schemaShipments[q.id].status = "assigned"
  /\ schemaShipments[q.id].transporterId = q.transporterId

C25_SameAssignIsNoOp ==
  [][/\ \A q \in assignReqs :
          (SameAssign(q) /\ assignReqs' = assignReqs \ {q}
                         /\ Cardinality(assignResps') > Cardinality(assignResps))
          => /\ schemaShipments' = schemaShipments
             /\ \E p \in assignResps' \ assignResps :
                  p.id = q.id /\ p.response.code = 200
     /\ currentShipment' # NoShipment
          => currentShipment'[1].transporterId \notin
               IdsOf(availableForReassignment(currentShipment', transporters', shipments'))
    ]_vars

\* ------------------------------------------------------------------------
\* C26: a step in which the server rejects an assign (NotFound,
\* InvalidRequest, VehicleTypeMismatch or TransporterBusy) leaves every
\* shipment of the server as it was, and so would the rejection of any
\* other assign on the database of that moment.
\* ------------------------------------------------------------------------
Rejections == {"NotFound", "InvalidRequest", "VehicleTypeMismatch", "TransporterBusy"}

C26_RejectedAssignChangesNothing ==
  [][\A p \in NewAssignResps :
        /\ p.response.code # 200
             => /\ ErrorKind(p.response) \in Rejections
                /\ schemaShipments' = schemaShipments
        /\ \A in \in AssignInputs :
             LET r == AssignHandler(schemaShipments, in[1], in[2])
             IN  ErrorKind(r.response) \in Rejections => r.db = schemaShipments]_vars

\* The server has rejected one assign for the vehicle type and another
\* because the transporter is busy, and its shipments are the seed's but
\* for one assignment.
C26_Witness ==
  \E p1 \in assignResps, p2 \in assignResps :
     /\ ErrorKind(p1.response) = "VehicleTypeMismatch"
     /\ ErrorKind(p2.response) = "TransporterBusy"
     /\ Cardinality({id \in ShipmentIds : schemaShipments[id] # SeedOf(id)}) = 1

\* ------------------------------------------------------------------------
\* C27: in every reachable state of the server, every shipment that has a
\* transporterId refers to an existing transporter of the shipment's
\* vehicle type; so does every shipment of the seed data.
\* ------------------------------------------------------------------------
RefersToMatchingTransporter(shipment) ==
  shipment.transporterId # NoTransporter
  => /\ shipment.transporterId \in TransporterIds
     /\ Transporter(shipment.transporterId).vehicleType = shipment.vehicleType

C27_TransporterExistsAndMatches ==
  /\ \A id \in DOMAIN schemaShipments :
        RefersToMatchingTransporter(schemaShipments[id])
  /\ \A i \in 1..Len(seedShipments) :
        RefersToMatchingTransporter(seedShipments[i])

\* A shipment the seed has without a transporter holds the second Truck
\* transporter and is in transit.
C27_Witness ==
  \E id \in ShipmentIds :
     /\ SeedOf(id).transporterId = NoTransporter
     /\ schemaShipments[id].transporterId = seedTransporters[4].id
     /\ schemaShipments[id].status = "in-transit"

\* ------------------------------------------------------------------------
\* C28: whenever no request and no response is in flight, the store's list
\* holds for each of its shipments the status and the transporterId the
\* server holds for it.
\* ------------------------------------------------------------------------
C28_StoreEqualsServerAtRest ==
  InFlight = 0
  => \A id \in DOMAIN shipments :
        /\ shipments[id].status = schemaShipments[id].status
        /\ shipments[id].transporterId = schemaShipments[id].transporterId

\* ------------------------------------------------------------------------
\* C29: whenever a store action (fetchShipments, fetchShipmentById,
\* fetchTransporters, assignTransporterToShipment) has been started and has
\* not completed, loading is true.
\* ------------------------------------------------------------------------
OutstandingActions ==
  Cardinality(fetchReqs) + Cardinality(fetchResps)
  + Cardinality(assignReqs) + Cardinality(assignResps)

C29_LoadingWhileOutstanding ==
  OutstandingActions > 0 => loading = TRUE

\* ------------------------------------------------------------------------
\* The simulator running for ever
\* ------------------------------------------------------------------------

\* One firing of the timer when the round trip of the firing before it is
\* over: the interval is 5000 ms and the server answers after 500 ms.
TickInTurn(id, advance) ==
  /\ statusReqs = {}
  /\ statusResps = {}
  /\ activeTimers # {}
  /\ id \in DOMAIN shipments
  /\ statusReqs' =
        {[id |-> id, status |-> NextStatus(shipments[id].status, advance),
          captured |-> TRUE, logged |-> realTimeUpdateErrors]}
  /\ UNCHANGED << schemaShipments, shipments, updateInterval, activeTimers,
                  assignReqs, fetchReqs, assignResps, statusResps, fetchResps,
                  fetchCount, requestCount,
                  currentShipment, transporters, loading, error, query, view,
                  realTimeUpdateErrors >>

\* The list is fetched, a bounded number of assigns is issued from the
\* detail view, whose form appears once the list is loaded, the simulator is
\* started and never stopped, and every status request is answered.
NextLive ==
  \/ FetchShipments
  \/ ServerFetch
  \/ FetchShipmentsDone
  \/ /\ requestCount < MaxLiveAssigns
     /\ DOMAIN shipments = ShipmentIds
     /\ \E in \in AssignInputs : AssignSend(in[1], in[2])
  \/ \E q \in assignReqs : ServerAssign(q)
  \/ \E p \in assignResps : AssignDone(p)
  \/ startRealTimeUpdates
  \/ \E id \in ShipmentIds, advance \in BOOLEAN : TickInTurn(id, advance)
  \/ \E q \in statusReqs : ServerStatus(q)
  \/ \E p \in statusResps : TickDone(p)

\* Every request is handled and every response delivered; the timer keeps
\* firing, and each shipment and each outcome of the draw is chosen again
\* and again.
FairLive ==
  /\ WF_vars(ServerFetch)
  /\ WF_vars(FetchShipmentsDone)
  /\ WF_vars(\E q \in assignReqs : ServerAssign(q))
  /\ WF_vars(\E p \in assignResps : AssignDone(p))
  /\ WF_vars(\E q \in statusReqs : ServerStatus(q))
  /\ WF_vars(\E p \in statusResps : TickDone(p))
  /\ \A id \in ShipmentIds, advance \in BOOLEAN :
        SF_vars(TickInTurn(id, advance))

SpecLive == Init /\ [][NextLive]_vars /\ FairLive

\* ------------------------------------------------------------------------
\* C30: once no assign is issued or in flight any more and the simulator
\* runs on the loaded list, every shipment the server holds as assigned or
\* in-transit is eventually delivered at the server, and a shipment the
\* server holds as not-assigned or cancelled keeps that status in every
\* later step.
\* ------------------------------------------------------------------------
AssignsOver ==
  /\ requestCount >= MaxLiveAssigns
  /\ assignReqs = {}
  /\ assignResps = {}

SimulatorRuns ==
  /\ updateInterval # null
  /\ DOMAIN shipments = ShipmentIds

C30_EventuallyDelivered ==
  \A id \in ShipmentIds :
     /\ (AssignsOver /\ SimulatorRuns /\ schemaShipments[id].status \in Busy)
           ~> (schemaShipments[id].status = "delivered")
     /\ \A status \in {"not-assigned", "cancelled"} :
          [](/\ AssignsOver
             /\ SimulatorRuns
             /\ schemaShipments[id].status = status
             => [](schemaShipments[id].status = status))

====
